---- MODULE Spec2Model ----
(***************************************************************************)
(* Model of server.js: the product catalogue (products table + uploads     *)
(* directory) and the admin login, served by concurrent request handlers.  *)
(* One action is one atomic step of the server: a multer upload, one SQL   *)
(* statement executed by MySQL, or the synchronous stretch of a handler    *)
(* between two awaits (fs.existsSync / fs.unlinkSync included).            *)
(* updated_at is left out: no handler reads it.                            *)
(***************************************************************************)
EXTENDS Integers, Sequences, FiniteSets, TLC

\* ------------------------------------------------------------------ bounds
MaxRows   == 1     \* rows ever inserted, where requests carry every input
MaxListed == 2     \* rows ever inserted, where the listing is studied
MaxFiles  == 2     \* files ever uploaded
MaxClock  == 2     \* ticks of the CURRENT_TIMESTAMP clock
NSlots    == 2     \* requests in flight at once

\* ------------------------------------------------------------------ values
Undefined == "undefined"       \* a form/JSON field that was not sent
NULL      == "NULL"            \* SQL NULL
NoImage   == <<>>              \* the image column holding NULL
NoFile    == 0                 \* req.file undefined

IconVals  == {Undefined, "", "*"}       \* icon as sent
Collations == {"ci", "bin"}    \* the schema names none: the server default decides

\* <<name, description, price>> as a request sends them: each field missing,
\* empty, or a text of its own.
ValidForm == <<"n", "d", "p">>
AllForms  == {Undefined, "", "n"} \X {Undefined, "", "d"} \X {Undefined, "", "p"}
EditForms == {ValidForm, <<"", "", "">>, <<Undefined, "d", "p">>}
AllLogins == {"admin", "ADMIN", "root"} \X {"admin123", "ADMIN123", "x"}

\* The inputs the requests of a specification are drawn from.
Overlapping ==
    [postForms |-> {ValidForm}, postIcons |-> {"*"},
     putForms |-> {ValidForm}, putIcons |-> {"*"},
     uploads |-> BOOLEAN, logins |-> AllLogins, rows |-> MaxRows]

Creating ==
    [postForms |-> AllForms, postIcons |-> IconVals,
     putForms |-> {ValidForm}, putIcons |-> {"*"},
     uploads |-> BOOLEAN, logins |-> {<<"admin", "admin123">>, <<"root", "x">>},
     rows |-> MaxRows]

Editing ==
    [postForms |-> {ValidForm}, postIcons |-> {""},
     putForms |-> EditForms, putIcons |-> IconVals,
     uploads |-> BOOLEAN, logins |-> {<<"admin", "admin123">>, <<"root", "x">>},
     rows |-> MaxRows]

Listing ==
    [postForms |-> {ValidForm}, postIcons |-> {"*"},
     putForms |-> {ValidForm}, putIcons |-> {"*"},
     uploads |-> {FALSE}, logins |-> {<<"admin", "admin123">>, <<"root", "x">>},
     rows |-> MaxListed]

VARIABLES
    products,     \* the products table: id -> row
    files,        \* the files of uploads/
    nextId,       \* the table's AUTO_INCREMENT counter
    nextFile,     \* the next name multer's filename() generates
    now,          \* CURRENT_TIMESTAMP, in its one-second ticks
    admin,        \* the admin table
    req           \* the requests in flight: slot -> handler state

vars == <<products, files, nextId, nextFile, now, admin, req>>

shared == <<products, files, nextId, nextFile, now, admin>>

\* ------------------------------------------------------- pure helpers
\* JavaScript `!v` on a string-or-undefined value.
Falsy(v) == v \in {Undefined, ""}

\* `icon || null`
OrNull(v) == IF Falsy(v) THEN NULL ELSE v

\* A bound parameter as mysql2's query() escapes it: undefined becomes NULL.
SqlParam(v) == IF v = Undefined THEN NULL ELSE v

\* `/uploads/${req.file.filename}`
UploadPath(f) == <<"/uploads/", f>>

\* req.file ? `/uploads/${req.file.filename}` : null
ImagePathOf(file) == IF file # NoFile THEN UploadPath(file) ELSE NoImage

\* path.join(__dirname, image): the file of the uploads directory a path names.
FileOfPath(p) == p[2]

\* Mutant of Unlink: the path is resolved against another directory, so the
\* file is never found and nothing is removed.
UnlinkWrongDir(fs, image) == fs

\* if (image) { if (fs.existsSync(p)) fs.unlinkSync(p) }
Unlink(fs, image) == IF image # NoImage THEN fs \ {FileOfPath(image)} ELSE fs

\* Mutant of MissingRequired: only the name is validated.
MissingRequiredNameOnly(name, description, price) == Falsy(name)

\* if (!name || !description || !price)
MissingRequired(name, description, price) ==
    Falsy(name) \/ Falsy(description) \/ Falsy(price)

\* Case folding of the model's strings, as a _ci collation compares them.
Fold(s) == CASE s = "ADMIN" -> "admin"
             [] s = "ADMIN123" -> "admin123"
             [] OTHER -> s

\* SQL `=` on VARCHAR columns under collation c.
SqlEq(c, a, b) == IF c = "ci" THEN Fold(a) = Fold(b) ELSE a = b

\* SELECT * FROM products WHERE id = ?   (zero or one row)
SelectById(id) == IF id \in DOMAIN products THEN <<products[id]>> ELSE <<>>

\* SELECT * FROM admin WHERE username = ? AND password = ?
SelectAdmin(c, u, p) ==
    {a \in admin : SqlEq(c, a.username, u) /\ SqlEq(c, a.password, p)}

\* The results SELECT * FROM products ORDER BY created_at DESC may return:
\* every row once, created_at non-increasing, rows of equal created_at in
\* any order (the statement names no other sort key).
OrderedByCreatedAtDesc ==
    LET n == Cardinality(DOMAIN products)
    IN  {l \in [1..n -> DOMAIN products] :
            /\ \A i, j \in 1..n : i # j => l[i] # l[j]
            /\ \A i, j \in 1..n :
                  i < j => products[l[i]].created_at >= products[l[j]].created_at}

\* ------------------------------------------------------- request slots
Idle == [pc |-> "idle", kind |-> "none", id |-> 0,
         name |-> Undefined, description |-> Undefined, price |-> Undefined,
         icon |-> Undefined, file |-> NoFile,
         existing |-> <<>>, imagePath |-> NoImage, insertId |-> 0,
         username |-> Undefined, password |-> Undefined,
         status |-> 0, product |-> <<>>, list |-> <<>>]

Slots == DOMAIN req

\* res.json(...) / res.status(...).json(...) ending handler state r.
Answer(r, status, product) ==
    [r EXCEPT !.pc = "done", !.status = status, !.product = product]

\* POST requests that will insert a row and have not yet.
PendingInserts ==
    Cardinality({s \in Slots :
        /\ req[s].kind = "POST"
        /\ req[s].pc \in {"handler", "insert"}
        /\ ~MissingRequired(req[s].name, req[s].description, req[s].price)})

\* ------------------------------------------------------------------ Init
\* The state once initDatabase() has run on an empty database: both tables
\* exist, the default admin row is seeded, the uploads directory is empty.
InitShared ==
    /\ products = <<>>
    /\ files = {}
    /\ nextId = 1
    /\ nextFile = 1
    /\ now = 1
    /\ admin = {[username |-> "admin", password |-> "admin123"]}

Init == InitShared /\ req = [s \in 1..NSlots |-> Idle]

\* The same server receiving one request at a time.
InitSerial == InitShared /\ req = [s \in 1..1 |-> Idle]

\* ------------------------------------------------------------------ clock
Tick ==
    /\ now < MaxClock
    /\ now' = now + 1
    /\ UNCHANGED <<products, files, nextId, nextFile, admin, req>>

\* ------------------------------------------------------- multer
\* upload.single('image'): the file, when the request carries one, is written
\* to uploads/ under a fresh name before the handler runs.
Upload(s, r, hasFile) ==
    /\ req[s].pc = "idle"
    /\ hasFile => nextFile <= MaxFiles
    /\ IF hasFile
         THEN /\ files' = files \cup {nextFile}
              /\ nextFile' = nextFile + 1
              /\ req' = [req EXCEPT ![s] = [r EXCEPT !.file = nextFile]]
         ELSE /\ UNCHANGED <<files, nextFile>>
              /\ req' = [req EXCEPT ![s] = r]

\* ------------------------------------------------------- POST /api/products
\* Mutant of InsertedRow: the icon is bound as sent, without `|| null`.
InsertedRowRawIcon(id, name, description, price, icon, imagePath) ==
    [id |-> id, name |-> SqlParam(name), description |-> SqlParam(description),
     price |-> SqlParam(price), icon |-> SqlParam(icon), image |-> imagePath,
     created_at |-> now]

\* The row INSERT INTO products (name, description, price, icon, image) stores.
InsertedRow(id, name, description, price, icon, imagePath) ==
    [id |-> id, name |-> SqlParam(name), description |-> SqlParam(description),
     price |-> SqlParam(price), icon |-> OrNull(icon), image |-> imagePath,
     created_at |-> now]

PostUpload(P, s) ==
    \E form \in P.postForms, icon \in P.postIcons, hasFile \in P.uploads :
        /\ ~MissingRequired(form[1], form[2], form[3])
              => nextId + PendingInserts <= P.rows
        /\ Upload(s, [Idle EXCEPT !.pc = "handler", !.kind = "POST",
                                  !.name = form[1], !.description = form[2],
                                  !.price = form[3], !.icon = icon], hasFile)
        /\ UNCHANGED <<products, nextId, now, admin>>

PostCheck(s) ==
    /\ req[s].kind = "POST" /\ req[s].pc = "handler"
    /\ IF MissingRequired(req[s].name, req[s].description, req[s].price)
         THEN req' = [req EXCEPT ![s] = Answer(req[s], 400, <<>>)]
         ELSE req' = [req EXCEPT ![s].pc = "insert",
                                 ![s].imagePath = ImagePathOf(req[s].file)]
    /\ UNCHANGED shared

PostInsert(s) ==
    /\ req[s].kind = "POST" /\ req[s].pc = "insert"
    /\ products' = products @@
          (nextId :> InsertedRow(nextId, req[s].name, req[s].description,
                                 req[s].price, req[s].icon, req[s].imagePath))
    /\ nextId' = nextId + 1
    /\ req' = [req EXCEPT ![s].pc = "reread", ![s].insertId = nextId]
    /\ UNCHANGED <<files, nextFile, now, admin>>

PostReread(s) ==
    /\ req[s].kind = "POST" /\ req[s].pc = "reread"
    /\ req' = [req EXCEPT ![s] =
                  Answer(req[s], 200, SelectById(req[s].insertId))]
    /\ UNCHANGED shared

\* ------------------------------------------------------- PUT /api/products/:id
\* UPDATE products SET name, description, price, icon, image WHERE id = ?
\* fails when a NOT NULL column is given NULL (MySQL's default strict mode).
NotNullViolated(name, description, price) ==
    NULL \in {SqlParam(name), SqlParam(description), SqlParam(price)}

\* Mutant of UpdatedRow: name and description bound in the wrong order.
UpdatedRowSwapped(row, name, description, price, icon, imagePath) ==
    [row EXCEPT !.name = SqlParam(description), !.description = SqlParam(name),
                !.price = SqlParam(price), !.icon = OrNull(icon),
                !.image = imagePath]

UpdatedRow(row, name, description, price, icon, imagePath) ==
    [row EXCEPT !.name = SqlParam(name), !.description = SqlParam(description),
                !.price = SqlParam(price), !.icon = OrNull(icon),
                !.image = imagePath]

PutUpload(P, s) ==
    \E id \in 1..P.rows, form \in P.putForms, icon \in P.putIcons, hasFile \in P.uploads :
        /\ Upload(s, [Idle EXCEPT !.pc = "select", !.kind = "PUT", !.id = id,
                                  !.name = form[1], !.description = form[2],
                                  !.price = form[3], !.icon = icon], hasFile)
        /\ UNCHANGED <<products, nextId, now, admin>>

PutSelect(s) ==
    /\ req[s].kind = "PUT" /\ req[s].pc = "select"
    /\ req' = [req EXCEPT ![s].pc = "check", ![s].existing = SelectById(req[s].id)]
    /\ UNCHANGED shared

\* imagePath after `let imagePath = existing[0].image; if (req.file) {...}`
PutImagePath(existing, file) ==
    IF file # NoFile THEN UploadPath(file) ELSE existing[1].image

\* Mutant of PutUnlink: the old image is never removed.
PutUnlinkKeepsOld(fs, existing, file) == fs

\* uploads/ after the handler's `if (req.file) { if (existing[0].image) ... }`
PutUnlink(fs, existing, file) ==
    IF file # NoFile THEN Unlink(fs, existing[1].image) ELSE fs

PutCheck(s) ==
    /\ req[s].kind = "PUT" /\ req[s].pc = "check"
    /\ IF Len(req[s].existing) = 0
         THEN /\ req' = [req EXCEPT ![s] = Answer(req[s], 404, <<>>)]
              /\ UNCHANGED files
         ELSE /\ files' = PutUnlink(files, req[s].existing, req[s].file)
              /\ req' = [req EXCEPT ![s].pc = "update",
                           ![s].imagePath = PutImagePath(req[s].existing, req[s].file)]
    /\ UNCHANGED <<products, nextId, nextFile, now, admin>>

PutUpdate(s) ==
    /\ req[s].kind = "PUT" /\ req[s].pc = "update"
    /\ IF NotNullViolated(req[s].name, req[s].description, req[s].price)
         THEN /\ req' = [req EXCEPT ![s] = Answer(req[s], 500, <<>>)]
              /\ UNCHANGED products
         ELSE /\ products' =
                   IF req[s].id \in DOMAIN products
                     THEN [products EXCEPT ![req[s].id] =
                             UpdatedRow(@, req[s].name, req[s].description,
                                        req[s].price, req[s].icon, req[s].imagePath)]
                     ELSE products
              /\ req' = [req EXCEPT ![s].pc = "reread"]
    /\ UNCHANGED <<files, nextId, nextFile, now, admin>>

PutReread(s) ==
    /\ req[s].kind = "PUT" /\ req[s].pc = "reread"
    /\ req' = [req EXCEPT ![s] = Answer(req[s], 200, SelectById(req[s].id))]
    /\ UNCHANGED shared

\* ------------------------------------------------------- DELETE /api/products/:id
DeleteSelect(P, s) ==
    \E id \in 1..P.rows :
        /\ req[s].pc = "idle"
        /\ req' = [req EXCEPT ![s] = [Idle EXCEPT !.pc = "check", !.kind = "DELETE",
                                        !.id = id, !.existing = SelectById(id)]]
        /\ UNCHANGED shared

DeleteCheck(s) ==
    /\ req[s].kind = "DELETE" /\ req[s].pc = "check"
    /\ IF Len(req[s].existing) = 0
         THEN /\ req' = [req EXCEPT ![s] = Answer(req[s], 404, <<>>)]
              /\ UNCHANGED files
         ELSE /\ files' = Unlink(files, req[s].existing[1].image)
              /\ req' = [req EXCEPT ![s].pc = "delete"]
    /\ UNCHANGED <<products, nextId, nextFile, now, admin>>

DeleteRow(s) ==
    /\ req[s].kind = "DELETE" /\ req[s].pc = "delete"
    /\ products' = [i \in DOMAIN products \ {req[s].id} |-> products[i]]
    /\ req' = [req EXCEPT ![s] = Answer(req[s], 200, <<>>)]
    /\ UNCHANGED <<files, nextId, nextFile, now, admin>>

\* ------------------------------------------------------- GET routes
GetProducts(s) ==
    \E l \in OrderedByCreatedAtDesc :
        /\ req[s].pc = "idle"
        /\ req' = [req EXCEPT ![s] = Answer([Idle EXCEPT !.kind = "LIST", !.list = l], 200, <<>>)]
        /\ UNCHANGED shared

GetProduct(P, s) ==
    \E id \in 1..P.rows :
        /\ req[s].pc = "idle"
        /\ req' = [req EXCEPT ![s] =
              Answer([Idle EXCEPT !.kind = "GET", !.id = id],
                     IF Len(SelectById(id)) = 0 THEN 404 ELSE 200, SelectById(id))]
        /\ UNCHANGED shared

\* ------------------------------------------------------- POST /api/admin/login
\* The collation of the admin table's columns is whatever the server's
\* default is: either comparison is one a deployment of this code makes.
Login(P, s) ==
    \E l \in P.logins, c \in Collations :
        /\ req[s].pc = "idle"
        /\ req' = [req EXCEPT ![s] =
              Answer([Idle EXCEPT !.kind = "LOGIN", !.username = l[1], !.password = l[2]],
                     IF SelectAdmin(c, l[1], l[2]) = {} THEN 401 ELSE 200, <<>>)]
        /\ UNCHANGED shared

\* The response has been sent; the slot takes the next request.
Respond(s) ==
    /\ req[s].pc = "done"
    /\ req' = [req EXCEPT ![s] = Idle]
    /\ UNCHANGED shared

\* ------------------------------------------------------------------ Next
Next(P) ==
    \/ Tick
    \/ \E s \in Slots : PostUpload(P, s)
    \/ \E s \in Slots : PostCheck(s)
    \/ \E s \in Slots : PostInsert(s)
    \/ \E s \in Slots : PostReread(s)
    \/ \E s \in Slots : PutUpload(P, s)
    \/ \E s \in Slots : PutSelect(s)
    \/ \E s \in Slots : PutCheck(s)
    \/ \E s \in Slots : PutUpdate(s)
    \/ \E s \in Slots : PutReread(s)
    \/ \E s \in Slots : DeleteSelect(P, s)
    \/ \E s \in Slots : DeleteCheck(s)
    \/ \E s \in Slots : DeleteRow(s)
    \/ \E s \in Slots : GetProducts(s)
    \/ \E s \in Slots : GetProduct(P, s)
    \/ \E s \in Slots : Login(P, s)
    \/ \E s \in Slots : Respond(s)

\* Well-formed requests overlapping freely: every statement succeeds.
Spec == Init /\ [][Next(Overlapping)]_vars

\* One request at a time; creates carry every input.
SpecCreating == InitSerial /\ [][Next(Creating)]_vars

\* One request at a time; updates carry every input.
SpecEditing == InitSerial /\ [][Next(Editing)]_vars

\* One request at a time over a table of several rows.
SpecListing == InitSerial /\ [][Next(Listing)]_vars

\* ================================================================== claims
Done(s, kind)  == req[s].pc = "done" /\ req[s].kind = kind
Quiescent      == \A s \in Slots : req[s].pc \in {"idle", "done"}
Blank(v)       == v = Undefined \/ v = ""
RowOf(id)      == products[id]
FileExists(p)  == p[2] \in files

\* ------------------------------------------------------------------ C1
\* C1: in every reachable state, every row whose image is not NULL names a
\* file that is in uploads/.
C1_ImageFileExists ==
    \A id \in DOMAIN products :
        RowOf(id).image # NoImage => FileExists(RowOf(id).image)

\* ------------------------------------------------------------------ C2
\* C2: every stored row has a non-empty name, description and price.
C2_RequiredFieldsNonEmpty ==
    \A id \in DOMAIN products :
        /\ RowOf(id).name \notin {"", NULL}
        /\ RowOf(id).description \notin {"", NULL}
        /\ RowOf(id).price \notin {"", NULL}

\* ------------------------------------------------------------------ C3
\* C3: a POST with a missing or empty name, description or price is answered
\* 400 and no step of it (its upload, its handler) changes the products table.
C3_BlankPost(r) ==
    r.kind = "POST" /\ (Blank(r.name) \/ Blank(r.description) \/ Blank(r.price))

C3_RejectedPostAddsNoRow ==
    [][\A s \in Slots :
          /\ (req[s].pc = "idle" /\ C3_BlankPost(req'[s])) => products' = products
          /\ (req[s].pc = "handler" /\ C3_BlankPost(req[s]) /\ req'[s] # req[s]) =>
                /\ req'[s].pc = "done"
                /\ req'[s].status = 400
                /\ products' = products]_vars

C3_Witness ==
    \E s \in Slots :
        /\ Done(s, "POST") /\ req[s].status = 400
        /\ req[s].name = "n" /\ req[s].description = "" /\ req[s].price = Undefined
        /\ req[s].file # NoFile
        /\ products # <<>>

\* ------------------------------------------------------------------ C4
\* No step of a PUT that carries no file changes uploads/ or any row's image.
C4_NoFileStep(s) ==
    \/ req[s].pc = "idle" /\ req'[s].kind = "PUT" /\ req'[s].file = NoFile
    \/ req[s].kind = "PUT" /\ req[s].pc # "done" /\ req[s].file = NoFile
          /\ req'[s] # req[s]

C4_NoFileKeepsImage ==
    \A s \in Slots :
        C4_NoFileStep(s) =>
            /\ files' = files
            /\ DOMAIN products' = DOMAIN products
            /\ \A id \in DOMAIN products : products'[id].image = products[id].image

\* A PUT with a file on an existing row has ended: the file the row named is
\* gone, the new file is there, the row's image is the new file's path.
C4_Replaced(s) ==
    /\ req[s].existing[1].image # NoImage => ~FileExists(req[s].existing[1].image)
    /\ req[s].file \in files
    /\ req[s].id \in DOMAIN products
    /\ RowOf(req[s].id).image = <<"/uploads/", req[s].file>>

C5_DeleteStepOnMissingRow(s) ==
    \/ req[s].pc = "idle" /\ req'[s].kind = "DELETE"
          /\ req'[s].id \notin DOMAIN products
    \/ req[s].kind = "DELETE" /\ req[s].pc = "check"
          /\ req[s].existing = <<>> /\ req'[s] # req[s]

\* C5: the step on which a DELETE answers success:true leaves no row with
\* that id and no file at the path the row held, and only a DELETE that found
\* the row answers so; an id that has left the table never returns to it,
\* and a GET answers 404 exactly when no row has its id; a DELETE of an id
\* with no row answers 404 and changes neither the table nor uploads/.
C5_DeleteRemovesRowAndFile ==
    /\ [](\A s \in Slots :
            Done(s, "DELETE") =>
                IF req[s].existing # <<>> THEN req[s].status = 200
                                          ELSE req[s].status = 404)
    /\ [][/\ \A s \in Slots :
                (req[s].kind = "DELETE" /\ req[s].pc # "done"
                   /\ req'[s].pc = "done" /\ req'[s].status = 200) =>
                    /\ req[s].id \notin DOMAIN products'
                    /\ req[s].existing[1].image # NoImage
                          => req[s].existing[1].image[2] \notin files'
          /\ \A id \in 1..(nextId - 1) :
                id \notin DOMAIN products => id \notin DOMAIN products'
          /\ \A s \in Slots :
                (req[s].pc = "idle" /\ req'[s].kind = "GET") =>
                    (req'[s].status = 404 <=> req'[s].id \notin DOMAIN products)
          /\ \A s \in Slots :
                C5_DeleteStepOnMissingRow(s) =>
                    /\ products' = products /\ files' = files
                    /\ req'[s].pc = "done" => req'[s].status = 404]_vars

C5_Witness ==
    \E s \in Slots :
        /\ Done(s, "DELETE") /\ req[s].status = 200
        /\ req[s].existing[1].image # NoImage
        /\ products = <<>> /\ nextId > 1

\* ------------------------------------------------------------------ C6
\* C6: GET /api/products lists the rows newest first: of any two rows the one
\* created later (the larger AUTO_INCREMENT id) comes first.
C6_ListedNewestFirst ==
    \A s \in Slots :
        Done(s, "LIST") =>
            \A i, j \in 1..Len(req[s].list) :
                i < j => req[s].list[i] > req[s].list[j]

\* ------------------------------------------------------------------ C7
\* The row a GET of the id a create returned reads, against the create's input.
C7_GetAnswers ==
    \A s \in Slots :
        Done(s, "GET") =>
            IF req[s].id \in DOMAIN products
              THEN req[s].status = 200 /\ req[s].product = <<RowOf(req[s].id)>>
              ELSE req[s].status = 404

C7_CreatedRowMatches(s, icon) ==
    /\ req[s].insertId \in DOMAIN products
    /\ req[s].product = <<RowOf(req[s].insertId)>>
    /\ RowOf(req[s].insertId).name = req[s].name
    /\ RowOf(req[s].insertId).description = req[s].description
    /\ RowOf(req[s].insertId).price = req[s].price
    /\ RowOf(req[s].insertId).icon = icon
    /\ RowOf(req[s].insertId).image =
          IF req[s].file = NoFile THEN NoImage ELSE <<"/uploads/", req[s].file>>

\* C7 as stated: the row's icon is the icon the create supplied, the empty
\* string included (an icon that was not sent reads back as NULL).
C7_CreatedRowIsInput ==
    /\ C7_GetAnswers
    /\ \A s \in Slots :
          (Done(s, "POST") /\ req[s].status = 200) =>
              C7_CreatedRowMatches(s,
                  IF req[s].icon = Undefined THEN NULL ELSE req[s].icon)

\* C7 amended: an empty icon reads back as NULL.
C7_CreatedRowIsInputIconOrNull ==
    /\ C7_GetAnswers
    /\ \A s \in Slots :
          (Done(s, "POST") /\ req[s].status = 200) =>
              C7_CreatedRowMatches(s,
                  IF Blank(req[s].icon) THEN NULL ELSE req[s].icon)

C7_Witness ==
    \E s \in Slots :
        /\ Done(s, "POST") /\ req[s].status = 200
        /\ req[s].icon = "" /\ req[s].file # NoFile

\* ------------------------------------------------------------------ C8
C8_UpdatedRowMatches(s, icon) ==
    /\ req[s].product # <<>>
    /\ req[s].id \in DOMAIN products
    /\ req[s].product = <<RowOf(req[s].id)>>
    /\ req[s].product[1].id = req[s].id
    /\ req[s].product[1].name = req[s].name
    /\ req[s].product[1].description = req[s].description
    /\ req[s].product[1].price = req[s].price
    /\ req[s].product[1].icon = icon

C9_NoOrphanedFile ==
    Quiescent =>
        \A f \in files :
            \E id \in DOMAIN products : RowOf(id).image = <<"/uploads/", f>>

\* ------------------------------------------------------------------ C10
\* C10: a login is answered success:true exactly when its (username, password)
\* is a pair of the admin table, 401 otherwise, and the admin table holds the
\* seeded pair alone.
C10_LoginOnlyExactPair ==
    /\ admin = {[username |-> "admin", password |-> "admin123"]}
    /\ \A s \in Slots :
          Done(s, "LOGIN") =>
              IF [username |-> req[s].username, password |-> req[s].password]
                    \in admin
                THEN req[s].status = 200
                ELSE req[s].status = 401

====
